---- MODULE Spec2Model ----
(***************************************************************************)
(* A model of web/app.py: the bootstrap sequence run at process start      *)
(* (wait_for_opensearch, ensure_index, seed_docs), the query translation   *)
(* and result formatting of do_search, and the two HTTP handlers, against  *)
(* a small model of the search engine the program talks to (an index with  *)
(* a mapping, stored documents, and the subset of them a refresh has made  *)
(* visible to count and search).                                           *)
(***************************************************************************)
EXTENDS Integers, Sequences, FiniteSets, TLC

VARIABLES
    indexExists,   \* engine: the index INDEX_NAME exists
    mapping,       \* engine: the index's field mapping, a set of <<field, type>>
    stored,        \* engine: ids of the documents held by the index
    visible,       \* engine: ids of the documents a refresh has made searchable
    createCalls,   \* engine: number of indices.create calls received
    pc,            \* per process: where the process is
    elapsed,       \* per process: time.time() - start inside wait_for_opensearch
    count,         \* per process: seed_docs's local `count` (-1: not read yet)
    nextDoc,       \* per process: seed_docs's loop index i (0-based)
    done,          \* per process: what this run of the process has completed
    runs,          \* bootstraps run to completion so far, over all processes
    seedCutShort,  \* some bootstrap was cut short inside seed_docs's writes
    resp           \* the HTTP response this step produced (NoResp: none)

vars == <<indexExists, mapping, stored, visible, createCalls, pc, elapsed,
          count, nextDoc, done, runs, seedCutShort, resp>>

engineVars == <<indexExists, mapping, stored, visible, createCalls>>

----------------------------------------------------------------------------
(* Bounds of the model *)

\* the longest a single health call takes, in time units
MaxCallDur == 1
\* the largest number of documents an index starts with in SearchSpec
MaxDocs == 27
\* bootstraps one process runs to completion
MaxRuns == 2

\* the processes (instances of the program) sharing the engine
Procs == {"p1", "p2"}

----------------------------------------------------------------------------
(* Configuration and program constants *)

\* Python's None, for Optional[str] parameters
None == "<None>"

CONTENT_TYPES == <<"article", "news", "blog", "report">>

TimeoutSec == 60
SleepSec == 2
PageSize == 25
SnippetLen == 50

MAPPING == {<<"title", "text">>, <<"content", "text">>, <<"content_type", "keyword">>}

Seed == <<
    [title |-> "title1", content |-> "content1", content_type |-> "article"],
    [title |-> "title2", content |-> "content2", content_type |-> "news"],
    [title |-> "title3", content |-> "content3", content_type |-> "blog"],
    [title |-> "title4", content |-> "content4", content_type |-> "report"],
    [title |-> "title5", content |-> "content5", content_type |-> "article"] >>

SeedIds == 1..Len(Seed)

----------------------------------------------------------------------------
(* Documents other writers may have put in the index (SearchSpec only) *)

Ten == "abcdefghij"
Fifty == "0123456789ABCDEFGHIJKLMNOPQRSTUVWXYZabcdefghijklmn"
Sixty == Fifty \o "opqrstuvwx"

Extra == <<
    [title |-> "long", content |-> Sixty, content_type |-> "news"],
    [content |-> Ten, content_type |-> "blog"],
    [title |-> "bare", content_type |-> "report"],
    [title |-> "edge", content |-> Fifty \o "o", content_type |-> "article"],
    [title |-> "full", content |-> Fifty, content_type |-> "article"],
    [title |-> "title1", content |-> "", content_type |-> "memo"] >>

\* the source of the document with this id
Doc(id) == IF id \in SeedIds THEN Seed[id]
           ELSE Extra[((id - Len(Seed) - 1) % Len(Extra)) + 1]

----------------------------------------------------------------------------
(* The engine's search, as far as do_search depends on it *)

Range(s) == {s[j] : j \in 1..Len(s)}

\* one clause of a bool query against one document: multi_match matches a
\* document one of whose listed fields holds the term, term matches a document
\* whose field is exactly the value
ClauseHolds(c, d) ==
    IF c.kind = "multi_match"
    THEN \E f \in Range(c.fields) : f \in DOMAIN d /\ d[f] = c.query
    ELSE c.field \in DOMAIN d /\ d[c.field] = c.value

\* bool/must is the conjunction of its clauses; match_all matches everything
QueryHolds(query, d) ==
    IF query.kind = "match_all" THEN TRUE
    ELSE \A j \in 1..Len(query.must) : ClauseHolds(query.must[j], d)

Min(S) == CHOOSE x \in S : \A y \in S : x <= y
Max(S) == CHOOSE x \in S : \A y \in S : x >= y

RECURSIVE Ascending(_)
Ascending(S) == IF S = {} THEN <<>> ELSE <<Min(S)>> \o Ascending(S \ {Min(S)})

RECURSIVE Descending(_)
Descending(S) == IF S = {} THEN <<>> ELSE <<Max(S)>> \o Descending(S \ {Max(S)})

\* the engine's order of the matching documents: index order for match_all,
\* an order of its own (here: the reverse) for a scored query
Ranked(query, ids) ==
    IF query.kind = "match_all" THEN Ascending(ids) ELSE Descending(ids)

\* "_source": [...] keeps the listed fields a document has
SourceFilter(d, fields) == [f \in (DOMAIN d) \cap Range(fields) |-> d[f]]

Take(s, n) == IF Len(s) <= n THEN s ELSE SubSeq(s, 1, n)

\* client.search(index=INDEX_NAME, body=...): the hits (_id and _source), in
\* the engine's order, at most body.size of them, among the visible documents
EngineSearch(vis, body) ==
    LET ids == {id \in vis : QueryHolds(body.query, Doc(id))}
        ranked == Take(Ranked(body.query, ids), body.size)
    IN  [j \in 1..Len(ranked) |->
            [id |-> ranked[j], source |-> SourceFilter(Doc(ranked[j]), body.source)]]

----------------------------------------------------------------------------
(* do_search *)

\* Python truthiness of a str or None
Truthy(s) == s # None /\ s # ""

\* src.get(key, "")
Get(src, key) == IF key \in DOMAIN src THEN src[key] ELSE ""

\* Snippet with a fault: the slice is one character short
SnippetOffByOne(content) == IF Len(content) <= SnippetLen - 1 THEN content
                            ELSE SubSeq(content, 1, SnippetLen - 1)

\* content[:50]
Snippet(content) == IF Len(content) <= SnippetLen THEN content
                    ELSE SubSeq(content, 1, SnippetLen)

\* the loop over res["hits"]["hits"]
Format(hits) ==
    [j \in 1..Len(hits) |->
        [title |-> Get(hits[j].source, "title"),
         snippet |-> Snippet(Get(hits[j].source, "content"))]]

\* MustClauses with a fault: the content-type clause replaces the list instead
\* of being appended to it
MustClausesOverwritten(q, content_type) ==
    IF Truthy(content_type)
    THEN <<[kind |-> "term", field |-> "content_type", value |-> content_type]>>
    ELSE IF q # ""
         THEN <<[kind |-> "multi_match", query |-> q, fields |-> <<"title", "content">>]>>
         ELSE <<>>

\* the clauses do_search collects in `must`
MustClauses(q, content_type) ==
    (IF q # ""
     THEN <<[kind |-> "multi_match", query |-> q, fields |-> <<"title", "content">>]>>
     ELSE <<>>)
    \o
    (IF Truthy(content_type)
     THEN <<[kind |-> "term", field |-> "content_type", value |-> content_type]>>
     ELSE <<>>)

BuildQuery(q, content_type) ==
    LET must == MustClauses(q, content_type)
    IN  IF must # <<>> THEN [kind |-> "bool", must |-> must]
        ELSE [kind |-> "match_all"]

SearchBody(q, content_type) ==
    [query |-> BuildQuery(q, content_type),
     source |-> <<"title", "content">>,
     size |-> PageSize]

NoBody == [query |-> [kind |-> "none"], source |-> <<>>, size |-> 0]

\* Rejected with a fault: the allow-list is never consulted
RejectedNever(content_type) == FALSE

\* the early return for a content type outside the allow-list
Rejected(content_type) ==
    Truthy(content_type) /\ content_type \notin Range(CONTENT_TYPES)

\* do_search(q, content_type) against the visible documents `vis`; `up` is
\* whether the engine answers the search call. The result records the call
\* made (calls, body), the hits received and the items returned; status 500
\* is the unhandled engine error.
do_search(q, content_type, vis, up) ==
    IF Rejected(content_type)
    THEN [status |-> 200, items |-> <<>>, calls |-> 0, body |-> NoBody, hits |-> <<>>]
    ELSE LET body == SearchBody(q, content_type)
         IN  IF ~up
             THEN [status |-> 500, items |-> <<>>, calls |-> 1, body |-> body,
                   hits |-> <<>>]
             ELSE LET hits == EngineSearch(vis, body)
                  IN  [status |-> 200, items |-> Format(hits), calls |-> 1,
                       body |-> body, hits |-> hits]

\* home_result with a fault: the guard is missing
home_result_unguarded(q, content_type, vis, up) == do_search(q, content_type, vis, up)

\* home's guard: do_search(q, content_type) if (q or content_type) else []
home_result(q, content_type, vis, up) ==
    IF q # "" \/ Truthy(content_type)
    THEN do_search(q, content_type, vis, up)
    ELSE [status |-> 200, items |-> <<>>, calls |-> 0, body |-> NoBody, hits |-> <<>>]

----------------------------------------------------------------------------
(* Initial state: no process started, the engine holds no index *)

NoResp == [endpoint |-> "none", q |-> "", content_type |-> None, status |-> 0,
           items |-> <<>>, calls |-> 0, body |-> NoBody, hits |-> <<>>]

Init ==
    /\ indexExists = FALSE
    /\ mapping = {}
    /\ stored = {}
    /\ visible = {}
    /\ createCalls = 0
    /\ pc = [p \in Procs |-> "off"]
    /\ elapsed = [p \in Procs |-> 0]
    /\ count = [p \in Procs |-> -1]
    /\ nextDoc = [p \in Procs |-> 0]
    /\ done = [p \in Procs |-> {}]
    /\ runs = 0
    /\ seedCutShort = FALSE
    /\ resp = NoResp

\* the pcs of a bootstrap past wait_for_opensearch
Bootstrapping == {"ensure", "create", "seed", "index", "refresh"}

\* the pcs of seed_docs between the count it read as zero and its return
Seeding == {"index", "refresh"}

----------------------------------------------------------------------------
(* Process start and the startup handler *)

\* the process is launched: the startup event runs startup()
Start(p) ==
    /\ pc[p] \in {"off", "failed", "timeout"}
    /\ runs < MaxRuns
    /\ pc' = [pc EXCEPT ![p] = "wait"]
    /\ elapsed' = [elapsed EXCEPT ![p] = 0]
    /\ count' = [count EXCEPT ![p] = -1]
    /\ nextDoc' = [nextDoc EXCEPT ![p] = 0]
    /\ done' = [done EXCEPT ![p] = {}]
    /\ UNCHANGED <<engineVars, runs, seedCutShort>>
    /\ resp' = NoResp

\* AfterTimeout with a fault: the function returns instead of raising
AfterTimeoutReturns == "ensure"

\* where the process goes when the while loop of wait_for_opensearch ends
AfterTimeout == "timeout"

\* the while condition fails: raise RuntimeError, startup fails
WaitTimeout(p) ==
    /\ pc[p] = "wait"
    /\ ~(elapsed[p] < TimeoutSec)
    /\ pc' = [pc EXCEPT ![p] = AfterTimeout]
    /\ elapsed' = [elapsed EXCEPT ![p] = 0]
    /\ UNCHANGED <<engineVars, count, nextDoc, done, runs, seedCutShort>>
    /\ resp' = NoResp

\* one iteration: health answers with a status, return True
PollOk(p) ==
    /\ pc[p] = "wait"
    /\ elapsed[p] < TimeoutSec
    /\ pc' = [pc EXCEPT ![p] = "ensure"]
    /\ elapsed' = [elapsed EXCEPT ![p] = 0]
    /\ done' = [done EXCEPT ![p] = @ \cup {"health"}]
    /\ UNCHANGED <<engineVars, count, nextDoc, runs, seedCutShort>>
    /\ resp' = NoResp

\* one iteration: client.cluster.health() takes d and raises; the except
\* branch sleeps, and the loop goes on
PollError(p, d) ==
    /\ pc[p] = "wait"
    /\ elapsed[p] < TimeoutSec
    /\ elapsed' = [elapsed EXCEPT ![p] = @ + d + SleepSec]
    /\ UNCHANGED <<engineVars, pc, count, nextDoc, done, runs, seedCutShort>>
    /\ resp' = NoResp

\* one iteration: client.cluster.health() takes d and answers nothing, or
\* something without a status; neither the return nor the except branch is
\* taken, and the loop goes on
PollNoStatus(p, d) ==
    /\ pc[p] = "wait"
    /\ elapsed[p] < TimeoutSec
    /\ elapsed' = [elapsed EXCEPT ![p] = @ + d]
    /\ UNCHANGED <<engineVars, pc, count, nextDoc, done, runs, seedCutShort>>
    /\ resp' = NoResp

\* IndexAbsent with a fault: the test is missing, the index is always created
IndexAbsentAlways == TRUE

\* not client.indices.exists(INDEX_NAME)
IndexAbsent == ~indexExists

\* ensure_index: the test of client.indices.exists(INDEX_NAME)
ExistsCheck(p) ==
    /\ pc[p] = "ensure"
    /\ IF ~IndexAbsent
       THEN /\ pc' = [pc EXCEPT ![p] = "seed"]
            /\ done' = [done EXCEPT ![p] = @ \cup {"ensure"}]
       ELSE /\ pc' = [pc EXCEPT ![p] = "create"]
            /\ UNCHANGED done
    /\ UNCHANGED <<engineVars, elapsed, count, nextDoc, runs, seedCutShort>>
    /\ resp' = NoResp

\* ensure_index: client.indices.create(index=INDEX_NAME, body=body); the
\* engine refuses to create an index that exists, and startup fails
Create(p) ==
    /\ pc[p] = "create"
    /\ createCalls' = createCalls + 1
    /\ IF ~indexExists
       THEN /\ indexExists' = TRUE
            /\ mapping' = MAPPING
            /\ pc' = [pc EXCEPT ![p] = "seed"]
            /\ done' = [done EXCEPT ![p] = @ \cup {"ensure"}]
       ELSE /\ pc' = [pc EXCEPT ![p] = "failed"]
            /\ done' = [done EXCEPT ![p] = {}]
            /\ UNCHANGED <<indexExists, mapping>>
    /\ UNCHANGED <<stored, visible, elapsed, count, nextDoc, runs, seedCutShort>>
    /\ resp' = NoResp

\* SkipSeeding with a fault: the comparison is >= instead of >
SkipSeedingFromZero(n) == n >= 0

\* seed_docs's test on the count it read
SkipSeeding(n) == n > 0

\* seed_docs: count = client.count(index=INDEX_NAME)["count"]; return if > 0
Count(p) ==
    /\ pc[p] = "seed"
    /\ count' = [count EXCEPT ![p] = Cardinality(visible)]
    /\ IF SkipSeeding(Cardinality(visible))
       THEN /\ pc' = [pc EXCEPT ![p] = "serving"]
            /\ done' = [done EXCEPT ![p] = @ \cup {"seed"}]
            /\ runs' = runs + 1
            /\ UNCHANGED nextDoc
       ELSE /\ pc' = [pc EXCEPT ![p] = "index"]
            /\ nextDoc' = [nextDoc EXCEPT ![p] = 0]
            /\ UNCHANGED <<done, runs>>
    /\ UNCHANGED <<engineVars, elapsed, seedCutShort>>
    /\ resp' = NoResp

\* seed_docs: client.index(index=INDEX_NAME, id=i+1, body=doc, refresh=False)
IndexDoc(p) ==
    /\ pc[p] = "index"
    /\ stored' = stored \cup {nextDoc[p] + 1}
    /\ nextDoc' = [nextDoc EXCEPT ![p] = @ + 1]
    /\ pc' = [pc EXCEPT ![p] = IF nextDoc[p] + 1 = Len(Seed) THEN "refresh" ELSE "index"]
    /\ UNCHANGED <<indexExists, mapping, visible, createCalls, elapsed, count,
                   done, runs, seedCutShort>>
    /\ resp' = NoResp

\* Refresh with a fault: seed_docs returns without the refresh call
RefreshSkipped(p) ==
    /\ pc[p] = "refresh"
    /\ pc' = [pc EXCEPT ![p] = "serving"]
    /\ done' = [done EXCEPT ![p] = @ \cup {"seed"}]
    /\ runs' = runs + 1
    /\ UNCHANGED <<engineVars, elapsed, count, nextDoc, seedCutShort>>
    /\ resp' = NoResp

\* seed_docs: client.indices.refresh(index=INDEX_NAME); startup returns
Refresh(p) ==
    /\ pc[p] = "refresh"
    /\ visible' = stored
    /\ pc' = [pc EXCEPT ![p] = "serving"]
    /\ done' = [done EXCEPT ![p] = @ \cup {"seed"}]
    /\ runs' = runs + 1
    /\ UNCHANGED <<indexExists, mapping, stored, createCalls, elapsed, count,
                   nextDoc, seedCutShort>>
    /\ resp' = NoResp

\* an engine call of ensure_index or seed_docs raises: startup fails, and the
\* process's locals are gone with it
EngineError(p) ==
    /\ pc[p] \in Bootstrapping
    /\ pc' = [pc EXCEPT ![p] = "failed"]
    /\ seedCutShort' = (seedCutShort \/ pc[p] \in Seeding)
    /\ count' = [count EXCEPT ![p] = -1]
    /\ nextDoc' = [nextDoc EXCEPT ![p] = 0]
    /\ done' = [done EXCEPT ![p] = {}]
    /\ UNCHANGED <<engineVars, elapsed, runs>>
    /\ resp' = NoResp

\* the process is stopped or killed, wherever it is; its locals are gone
Kill(p) ==
    /\ pc[p] \in Bootstrapping \cup {"wait", "serving"}
    /\ pc' = [pc EXCEPT ![p] = "off"]
    /\ seedCutShort' = (seedCutShort \/ pc[p] \in Seeding)
    /\ elapsed' = [elapsed EXCEPT ![p] = 0]
    /\ count' = [count EXCEPT ![p] = -1]
    /\ nextDoc' = [nextDoc EXCEPT ![p] = 0]
    /\ done' = [done EXCEPT ![p] = {}]
    /\ UNCHANGED <<engineVars, runs>>
    /\ resp' = NoResp

\* the engine's periodic refresh
EngineRefresh ==
    /\ visible # stored
    /\ visible' = stored
    /\ UNCHANGED <<indexExists, mapping, stored, createCalls, pc, elapsed, count,
                   nextDoc, done, runs, seedCutShort>>
    /\ resp' = NoResp

----------------------------------------------------------------------------
(* The HTTP surface *)

\* the application serves requests once its startup handler has returned
Accepting(p) == pc[p] = "serving"

Respond(p, endpoint, q, content_type, r) ==
    /\ resp' = [endpoint |-> endpoint, q |-> q, content_type |-> content_type,
                status |-> r.status, items |-> r.items, calls |-> r.calls,
                body |-> r.body, hits |-> r.hits]
    /\ done' = [done EXCEPT ![p] = @ \cup {"request"}]
    /\ UNCHANGED <<engineVars, pc, elapsed, count, nextDoc, runs, seedCutShort>>

\* GET /
home(p, q, content_type) ==
    /\ Accepting(p)
    /\ \E up \in BOOLEAN :
          Respond(p, "home", q, content_type, home_result(q, content_type, visible, up))

\* api_search with a fault: the endpoint has home's guard
api_search_guarded(p, q, content_type) ==
    /\ Accepting(p)
    /\ \E up \in BOOLEAN :
          Respond(p, "api", q, content_type, home_result(q, content_type, visible, up))

\* GET /api/search
api_search(p, q, content_type) ==
    /\ Accepting(p)
    /\ \E up \in BOOLEAN :
          Respond(p, "api", q, content_type, do_search(q, content_type, visible, up))

----------------------------------------------------------------------------
(* Specifications *)

\* request inputs of the bootstrap specifications
Qs == {"", "content5"}
Types == {None}

Step(p) ==
    \/ Start(p)
    \/ WaitTimeout(p)
    \/ PollOk(p)
    \/ \E d \in 0..MaxCallDur : PollError(p, d)
    \/ \E d \in 0..MaxCallDur : PollNoStatus(p, d)
    \/ ExistsCheck(p)
    \/ Create(p)
    \/ Count(p)
    \/ IndexDoc(p)
    \/ Refresh(p)
    \/ EngineError(p)
    \/ Kill(p)
    \/ \E q \in Qs, t \in Types : home(p, q, t)
    \/ \E q \in Qs, t \in Types : api_search(p, q, t)

\* any number of processes against one engine, interleaved
Next == (\E p \in Procs : Step(p)) \/ EngineRefresh

Spec == Init /\ [][Next]_vars

\* one process, restarted any number of times
SeqNext == Step("p1") \/ EngineRefresh

SeqSpec == Init /\ [][SeqNext]_vars

\* request inputs of the search specification
SearchQs == {"", "content1", "title1", Ten, "zzz"}
SearchTypes == {None, "", "article", "news", "memo", "bogus"}

\* a serving process over an index that holds n documents, all visible: the
\* seed documents first, then documents of other writers
SearchInit ==
    /\ indexExists = TRUE
    /\ mapping = MAPPING
    /\ \E n \in 1..MaxDocs : stored = 1..n /\ visible = 1..n /\ count = [p \in Procs |-> IF p = "p1" THEN n ELSE -1]
    /\ createCalls = 1
    /\ pc = [p \in Procs |-> IF p = "p1" THEN "serving" ELSE "off"]
    /\ elapsed = [p \in Procs |-> 0]
    /\ nextDoc = [p \in Procs |-> 0]
    /\ done = [p \in Procs |-> IF p = "p1" THEN {"health", "ensure", "seed"} ELSE {}]
    /\ runs = 1
    /\ seedCutShort = FALSE
    /\ resp = NoResp

SearchNext ==
    \/ \E q \in SearchQs, t \in SearchTypes : home("p1", q, t)
    \/ \E q \in SearchQs, t \in SearchTypes : api_search("p1", q, t)

SearchSpec == SearchInit /\ [][SearchNext]_vars

----------------------------------------------------------------------------
(* Properties of the request handlers (SearchSpec) *)

AllowList == {"article", "news", "blog", "report"}

\* a parameter that is absent or the empty string
Empty(x) == x \in {None, ""}

\* the fields of document id a hit carries
Src(id) == [f \in (DOMAIN Doc(id)) \cap {"title", "content"} |-> Doc(id)[f]]

\* C2: for every q and every non-empty content_type outside the allow-list,
\* api_search answers the empty list, and not an error, whatever the index
\* holds and whether or not the engine is reachable.
C2_UnknownTypeEmpty ==
    (resp.endpoint = "api" /\ ~Empty(resp.content_type)
        /\ resp.content_type \notin AllowList)
    => (resp.status = 200 /\ resp.items = <<>>)

\* an unknown type some document of the index carries, with a q that document
\* matches: the answer is still empty
C2_Witness ==
    /\ resp.endpoint = "api"
    /\ resp.content_type = "memo"
    /\ resp.q = "title1"
    /\ 11 \in visible /\ Doc(11).content_type = "memo" /\ Doc(11).title = "title1"
    /\ resp.status = 200 /\ resp.items = <<>>

\* C3: api_search with q and content_type both empty or absent always calls
\* the engine, with a match_all query of size 25, and (when the engine
\* answers) returns one item per document of the index, up to 25 of them.
C3_ApiMatchAll ==
    (resp.endpoint = "api" /\ resp.q = "" /\ Empty(resp.content_type))
    => /\ resp.calls = 1
       /\ resp.body.query = [kind |-> "match_all"]
       /\ resp.body.size = 25
       /\ resp.status = 200 =>
            /\ Len(resp.items) = Len(resp.hits)
            /\ Len(resp.hits) = IF Cardinality(stored) <= 25 THEN Cardinality(stored) ELSE 25
            /\ \A j \in 1..Len(resp.hits) :
                  /\ resp.hits[j].id \in stored
                  /\ resp.hits[j].source = Src(resp.hits[j].id)
            /\ \A j, k \in 1..Len(resp.hits) :
                  resp.hits[j].id = resp.hits[k].id => j = k

\* both empty over an index of more than 25 documents: 25 items come back
C3_Witness ==
    /\ resp.endpoint = "api" /\ resp.q = "" /\ resp.content_type = ""
    /\ Cardinality(stored) > 25
    /\ resp.status = 200 /\ Len(resp.items) = 25

\* C4: home with q and content_type both empty or absent returns an empty
\* result list and makes no search call; home calls the engine only when one
\* of the two is non-empty.
C4_HomeNoSearch ==
    /\ (resp.endpoint = "home" /\ resp.q = "" /\ Empty(resp.content_type))
          => (resp.items = <<>> /\ resp.calls = 0 /\ resp.status = 200)
    /\ (resp.endpoint = "home" /\ resp.calls > 0)
          => (resp.q # "" \/ ~Empty(resp.content_type))

\* home with both empty over a non-empty index
C4_Witness ==
    /\ resp.endpoint = "home" /\ resp.q = "" /\ resp.content_type = None
    /\ visible # {}
    /\ resp.items = <<>> /\ resp.calls = 0

\* C6: the items do_search returns are the pointwise image of the hits: same
\* length, same order, title the hit's title or "" if absent, snippet the
\* first 50 characters of the hit's content (all of it when it has at most
\* 50, "" if absent), nothing appended.
C6_ItemsImageOfHits ==
    resp.status = 200 =>
        /\ Len(resp.items) = Len(resp.hits)
        /\ \A j \in 1..Len(resp.hits) :
              LET src == resp.hits[j].source
                  content == IF "content" \in DOMAIN src THEN src["content"] ELSE ""
                  item == resp.items[j]
              IN  /\ item.title = (IF "title" \in DOMAIN src THEN src["title"] ELSE "")
                  /\ Len(content) <= 50 => item.snippet = content
                  /\ Len(content) > 50 =>
                        /\ Len(item.snippet) = 50
                        /\ item.snippet \o SubSeq(content, 51, Len(content)) = content

\* a response whose hits include a 60-character content, a hit without title
\* and a hit without content
C6_Witness ==
    /\ resp.status = 200
    /\ Len(resp.hits) >= 8
    /\ \E j \in 1..Len(resp.hits) :
          /\ Len(Get(resp.hits[j].source, "content")) = 60
          /\ Len(resp.items[j].snippet) = 50
    /\ \E j \in 1..Len(resp.hits) : "title" \notin DOMAIN resp.hits[j].source
    /\ \E j \in 1..Len(resp.hits) : "content" \notin DOMAIN resp.hits[j].source

\* the clauses of the query a response's search call carried
SentClauses == IF resp.body.query.kind = "bool"
               THEN {resp.body.query.must[j] : j \in 1..Len(resp.body.query.must)}
               ELSE {}

IsFullText(c) == c.kind = "multi_match" /\ c.query = resp.q
                 /\ c.fields = <<"title", "content">>

IsFilter(c) == c.kind = "term" /\ c.field = "content_type"
               /\ c.value = resp.content_type

\* C8: whenever do_search runs with a content_type that is empty or in the
\* allow-list, the query it sends has a full-text clause on title and content
\* iff q is non-empty and an exact-match clause on content_type iff
\* content_type is non-empty; the query is bool/must of exactly the present
\* clauses when there is one and match_all exactly when there is none; and
\* every document returned satisfies every present clause.
C8_QueryClauses ==
    (/\ resp.endpoint \in {"home", "api"}
     /\ Empty(resp.content_type) \/ resp.content_type \in AllowList
     /\ ~(resp.endpoint = "home" /\ resp.q = "" /\ Empty(resp.content_type)))
    => /\ resp.calls = 1
       /\ resp.body.query.kind \in {"bool", "match_all"}
       /\ (\E c \in SentClauses : IsFullText(c)) <=> resp.q # ""
       /\ (\E c \in SentClauses : IsFilter(c)) <=> ~Empty(resp.content_type)
       /\ \A c \in SentClauses : IsFullText(c) \/ IsFilter(c)
       /\ resp.body.query.kind = "match_all"
             <=> (resp.q = "" /\ Empty(resp.content_type))
       /\ \A j \in 1..Len(resp.hits) :
             LET d == Doc(resp.hits[j].id)
             IN  /\ resp.q # "" =>
                       \/ "title" \in DOMAIN d /\ d["title"] = resp.q
                       \/ "content" \in DOMAIN d /\ d["content"] = resp.q
                 /\ ~Empty(resp.content_type) =>
                       d["content_type"] = resp.content_type

\* both clauses present, over an index where a document matches q but not
\* the filter: only the document matching both comes back
C8_Witness ==
    /\ resp.endpoint = "api" /\ resp.q = "title1" /\ resp.content_type = "article"
    /\ 11 \in visible /\ Doc(11).title = "title1"
    /\ resp.status = 200
    /\ Len(resp.hits) = 1 /\ resp.hits[1].id = 1

----------------------------------------------------------------------------
(* Properties of the bootstrap *)

\* C1: two bootstraps run to completion in succession, from an index that is
\* absent or empty (no bootstrap was cut short while writing documents),
\* leave exactly 5 documents: the second one reads a nonzero count and
\* indexes nothing.
C1_TwiceFiveDocs ==
    (runs >= 2 /\ ~seedCutShort /\ pc["p1"] = "serving")
    => /\ Cardinality(stored) = 5
       /\ Cardinality(visible) = 5
       /\ count["p1"] > 0
       /\ nextDoc["p1"] = 0

\* the second bootstrap has completed, having read a count of 5
C1_Witness ==
    /\ runs = 2 /\ ~seedCutShort /\ pc["p1"] = "serving"
    /\ count["p1"] = 5 /\ stored = 1..5

\* C5: in every run of a process the order is successful health response,
\* then ensure_index, then seed_docs, then request handling, and a run whose
\* health wait timed out has done none of these.
C5_BootstrapBeforeServing ==
    \A p \in Procs :
        /\ pc[p] \in {"ensure", "create"} => done[p] = {"health"}
        /\ pc[p] \in {"seed", "index", "refresh"} => done[p] = {"health", "ensure"}
        /\ "request" \in done[p] => {"health", "ensure", "seed"} \subseteq done[p]
        /\ "seed" \in done[p] => "ensure" \in done[p]
        /\ "ensure" \in done[p] => "health" \in done[p]
        /\ pc[p] = "timeout" => done[p] = {}

\* one process has served a request while another's health wait timed out
C5_Witness ==
    \E p, r \in Procs :
        /\ "request" \in done[p] /\ pc[p] = "serving" /\ resp.endpoint = "api"
        /\ pc[r] = "timeout"

\* C7: over any sequence of bootstraps of one process the index is created
\* at most once: the create call is issued only when the index does not
\* exist, and it gives the index exactly the fields title (text), content
\* (text) and content_type (keyword).
C7_CreatedAtMostOnce ==
    /\ [](createCalls <= 1)
    /\ [](indexExists =>
            mapping = {<<"title", "text">>, <<"content", "text">>,
                       <<"content_type", "keyword">>})
    /\ [][createCalls' # createCalls => (~indexExists /\ indexExists')]_vars

\* the second bootstrap has completed and one create call was made
C7_Witness ==
    /\ runs = 2 /\ pc["p1"] = "serving"
    /\ createCalls = 1 /\ indexExists

\* C9: every iteration of wait_for_opensearch's loop that does not return
\* (the health call raised, or answered without a status) sleeps 2 units
\* before the next poll: each such iteration moves the process's clock on by
\* at least the sleep.
C9_SleepAfterEveryFailedPoll ==
    [][\A p \in Procs :
          (\E d \in 0..MaxCallDur : PollError(p, d) \/ PollNoStatus(p, d))
          => elapsed'[p] >= elapsed[p] + 2]_vars

\* C10 as stated: once a bootstrap has run to completion the index holds all
\* 5 seed documents and they are visible, whatever happened before.
C10_AllSeedsAfterBootstrap ==
    \A p \in Procs : pc[p] = "serving" => (stored = 1..5 /\ visible = 1..5)

\* C10, amended: once a bootstrap has run to completion the index exists
\* and holds seed documents only (ids 1 to 5), at least one of them visible;
\* it holds all 5, all visible, when that bootstrap read a count of zero;
\* when it read a nonzero count it indexed nothing, and at least that many
\* documents are visible.
C10_SeedsAfterBootstrap ==
    \A p \in Procs :
        pc[p] = "serving" =>
            /\ indexExists
            /\ stored \subseteq 1..5
            /\ visible \subseteq stored
            /\ visible # {}
            /\ count[p] = 0 => (stored = 1..5 /\ visible = 1..5)
            /\ count[p] # 0 => (nextDoc[p] = 0 /\ Cardinality(visible) >= count[p]
                                /\ count[p] > 0)

\* two processes serving: one read a count of zero and seeded, the other
\* read a count between 1 and 4 and skipped
C10_Witness ==
    \E p, r \in Procs :
        /\ pc[p] = "serving" /\ count[p] = 0
        /\ pc[r] = "serving" /\ count[r] \in 1..4
        /\ seedCutShort

====
